---- MODULE Spec2Model ----
(***************************************************************************)
(* Expense Tracker (src/script.js): the localStorage ledger, the financial *)
(* engine, the report filters and the budget tracker, as a state machine.  *)
(*                                                                         *)
(* Several pages (dashboard, add, reports, settings) share one             *)
(* localStorage; a handler is enabled whenever the control that triggers   *)
(* it exists, so handlers of different pages interleave freely.            *)
(***************************************************************************)
EXTENDS Integers, Sequences, FiniteSets, TLC

VARIABLES
    transactions,   \* localStorage['expense_tracker_data'], parsed: a sequence of records
    settings,       \* localStorage['expense_tracker_settings'], parsed, or NoSettings when the key is absent
    clock,          \* the reading Date.now() returns (milliseconds)
    nextSeq,        \* history: how many submissions were accepted so far
    now,            \* the local calendar date new Date() returns
    tzWest,         \* TRUE when the browser's time zone is behind UTC
    toasts,         \* the toasts the most recent handler showed, in order
    redirect,       \* the location a pending setTimeout will navigate to, or "none"
    lastOp,         \* history: the most recent handler and how its confirm() was answered
    recent,         \* children of #transactions-container (the dashboard list)
    summary,        \* the dashboard's totals (updateSummary)
    progress,       \* the settings page's budget bar, percent text and alert
    report,         \* what applyFilters handed to the charts and the summary text
    engine          \* the last results of the FinancialEngine's functions

vars == <<transactions, settings, clock, nextSeq, now, tzWest, toasts, redirect,
          lastOp, recent, summary, progress, report, engine>>

----------------------------------------------------------------------------
(* Bounds of the model. *)

\* clock readings are 0..MaxClock
MaxClock == 1
\* accepted submissions in one run
MaxSubmits == 3
\* length of the stored lists the Init of the page specifications draws
MaxLen == 2

----------------------------------------------------------------------------
(* JavaScript numbers, as far as the sums of the program use them: a       *)
(* finite integer or NaN. Amounts are integers, so sums are exact.         *)

Fin(n) == [k |-> "fin", v |-> n]
NaN == [k |-> "nan", v |-> 0]

\* a + b and a - b: NaN as soon as one side is NaN
JsAdd(a, b) == IF a.k = "nan" \/ b.k = "nan" THEN NaN ELSE Fin(a.v + b.v)
JsSub(a, b) == IF a.k = "nan" \/ b.k = "nan" THEN NaN ELSE Fin(a.v - b.v)

\* a === b on numbers: NaN equals nothing, itself included
JsEq(a, b) == a.k # "nan" /\ b.k # "nan" /\ a = b

(* The value of a form field that is meant to hold a number: the empty     *)
(* string, the decimal string of an integer, or a string that is no number.*)
FieldEmpty == [kind |-> "empty", n |-> 0]
FieldText == [kind |-> "text", n |-> 0]
FieldNum(n) == [kind |-> "num", n |-> n]

\* !s for a string: only the empty string is falsy
Falsy(s) == s.kind = "empty"

\* Number(s), the conversion the relational operators apply to a string
ToNumber(s) ==
    IF s.kind = "num" THEN Fin(s.n)
    ELSE IF s.kind = "empty" THEN Fin(0)
    ELSE NaN

\* a <= b and a < b on numbers: FALSE as soon as one side is NaN
JsLe(a, b) == a.k = "fin" /\ b.k = "fin" /\ a.v <= b.v
JsLt(a, b) == a.k = "fin" /\ b.k = "fin" /\ a.v < b.v

\* parseFloat(s): the empty string and a non-numeric string give NaN
parseFloat(s) == IF s.kind = "num" THEN Fin(s.n) ELSE NaN

----------------------------------------------------------------------------
(* Calendar dates. A Date is [y, m, d] with m the month index 0..11 that   *)
(* getMonth() returns; a date string "YYYY-MM-DD" is [y, mo, d] with mo in *)
(* 1..12.                                                                  *)

IsLeap(y) == (y % 4 = 0 /\ y % 100 # 0) \/ y % 400 = 0

DaysInMonth(y, m) ==
    IF m = 1 THEN (IF IsLeap(y) THEN 29 ELSE 28)
    ELSE IF m \in {3, 5, 8, 10} THEN 30
    ELSE 31

PrevDay(dt) ==
    IF dt.d > 1 THEN [dt EXCEPT !.d = dt.d - 1]
    ELSE IF dt.m > 0 THEN [y |-> dt.y, m |-> dt.m - 1, d |-> DaysInMonth(dt.y, dt.m - 1)]
    ELSE [y |-> dt.y - 1, m |-> 11, d |-> 31]

\* new Date("YYYY-MM-DD") read through the local getters: the string is
\* midnight UTC, which is the evening before in a zone behind UTC
ParseLocal(s, west) ==
    LET utc == [y |-> s.y, m |-> s.mo - 1, d |-> s.d]
    IN IF west THEN PrevDay(utc) ELSE utc

\* date.setMonth(m): month m of the date's year, m outside 0..11 carried
\* into the year, and a day past the end of that month carried into the next
setMonth(dt, m) ==
    LET y == dt.y + (m \div 12)
        mm == m % 12
        dim == DaysInMonth(y, mm)
    IN IF dt.d <= dim THEN [y |-> y, m |-> mm, d |-> dt.d]
       ELSE [y |-> IF mm = 11 THEN y + 1 ELSE y, m |-> (mm + 1) % 12, d |-> dt.d - dim]

----------------------------------------------------------------------------
(* Records. *)

Types == {"income", "expense"}

\* AddTransactionController.categories
categories ==
    [expense |-> <<"Food", "Travel", "Rent", "Utilities", "Shopping", "Health",
                   "Entertainment", "Other">>,
     income |-> <<"Salary", "Business", "Investment", "Other">>]

Range(s) == {s[i] : i \in DOMAIN s}

\* budget of the settings the program assumes when the key is absent
DefaultBudget == 2000

\* JSON's null: what JSON.stringify writes for a NaN
Null == [k |-> "null", v |-> 0]

NoSettings == [present |-> FALSE, budget |-> Null, theme |-> ""]

Toast(message, type) == [message |-> message, type |-> type]

NoId == -1

NoOp == [op |-> "none", answer |-> "none", amount |-> FieldEmpty, id |-> NoId]

----------------------------------------------------------------------------
(* DataManager *)

getTransactions == transactions

addTransactionPush(txs, t) == Append(txs, t)

\* unshift: the new record first
addTransaction(txs, t) == <<t>> \o txs

deleteTransaction(txs, id) == SelectSeq(txs, LAMBDA t : t.id # id)

\* JSON.stringify then JSON.parse of the settings object: NaN becomes null
saveSettings(s) ==
    [present |-> TRUE,
     budget |-> IF s.budget.k = "nan" THEN Null ELSE s.budget,
     theme |-> s.theme]

getSettings ==
    IF settings.present THEN settings
    ELSE [present |-> TRUE, budget |-> Fin(DefaultBudget), theme |-> "light"]

----------------------------------------------------------------------------
(* FinancialEngine *)

RECURSIVE SumAmounts(_)
\* the forEach / reduce accumulation of parseFloat(t.amount), left to right
SumAmounts(txs) ==
    IF txs = <<>> THEN Fin(0)
    ELSE JsAdd(SumAmounts(SubSeq(txs, 1, Len(txs) - 1)), parseFloat(txs[Len(txs)].amount))

calculateTotals(txs) ==
    LET income == SumAmounts(SelectSeq(txs, LAMBDA t : t.type = "income"))
        expense == SumAmounts(SelectSeq(txs, LAMBDA t : t.type # "income"))
    IN [income |-> income, expense |-> expense, balance |-> JsSub(income, expense)]

\* x || 0 on a number: 0 and NaN are falsy
OrZero(x) == IF x.k = "nan" \/ x = Fin(0) THEN Fin(0) ELSE x

RECURSIVE CategoryFold(_)
CategoryFold(txs) ==
    IF txs = <<>> THEN <<>>
    ELSE LET totals == CategoryFold(SubSeq(txs, 1, Len(txs) - 1))
             t == txs[Len(txs)]
             old == IF t.category \in DOMAIN totals THEN OrZero(totals[t.category]) ELSE Fin(0)
         IN [c \in DOMAIN totals \cup {t.category} |->
                IF c = t.category THEN JsAdd(old, parseFloat(t.amount)) ELSE totals[c]]

getCategoryTotalsAnyType(txs, type) == CategoryFold(txs)

\* a mapping category -> total, for the records of the given type
getCategoryTotals(txs, type) == CategoryFold(SelectSeq(txs, LAMBDA t : t.type = type))

----------------------------------------------------------------------------
(* DashboardController *)

\* number of records the dashboard lists
RecentCount == 5

NoSummary == [rendered |-> FALSE, income |-> Fin(0), expense |-> Fin(0), balance |-> Fin(0)]

updateSummary(txs) ==
    LET totals == calculateTotals(txs)
    IN [rendered |-> TRUE, income |-> totals.income, expense |-> totals.expense,
        balance |-> totals.balance]

FirstN(s, n) == SubSeq(s, 1, IF Len(s) < n THEN Len(s) ELSE n)

\* the children of #transactions-container after the call: with nothing
\* stored the function returns before it touches the container
renderRecentTransactions(container, txs) ==
    LET shown == FirstN(txs, RecentCount)
    IN IF Len(shown) = 0 THEN container ELSE shown

----------------------------------------------------------------------------
(* SettingsController: the budget tracker *)

ExceededPercent == 100
WarningPercent == 80

\* percent is the rational num/den (den > 0), NaN or +Infinity
PFin(num, den) == [k |-> "fin", num |-> num, den |-> den]
PNaN == [k |-> "nan", num |-> 0, den |-> 1]
PInf == [k |-> "inf", num |-> 0, den |-> 1]

\* (thisMonthExpenses / settings.budget) * 100; null counts as 0
percentOf(expenses, budget) ==
    LET b == IF budget.k = "null" THEN 0 ELSE budget.v
    IN IF expenses.k = "nan" THEN PNaN
       ELSE IF b = 0 THEN (IF expenses.v = 0 THEN PNaN ELSE PInf)
       ELSE PFin(expenses.v * 100, b)

\* percent >= n: FALSE for NaN
PGe(p, n) == p.k = "inf" \/ (p.k = "fin" /\ p.num >= n * p.den)

\* Math.min(percent, 100)
boundedPercent(p) ==
    IF p.k = "nan" THEN PNaN
    ELSE IF PGe(p, ExceededPercent) THEN PFin(ExceededPercent, 1)
    ELSE p

\* Math.round(percent): floor(percent + 1/2)
MathRound(p) ==
    IF p.k = "fin" THEN PFin((2 * p.num + p.den) \div (2 * p.den), 1) ELSE p

\* the records updateProgress counts: expenses whose date, read through the
\* local getters, is in now's month and year
thisMonthExpenses(txs, today, west) ==
    SumAmounts(SelectSeq(SelectSeq(txs, LAMBDA t : t.type = "expense"),
                         LAMBDA t : LET d == ParseLocal(t.date, west)
                                    IN d.m = today.m /\ d.y = today.y))

\* the toasts checkBudgetAlerts shows
checkBudgetAlerts(p) ==
    IF PGe(p, ExceededPercent)
    THEN <<Toast("Budget Exceeded! Please review your spending.", "error")>>
    ELSE IF PGe(p, WarningPercent)
    THEN <<Toast("Budget Warning: You have reached 80% of your limit.", "error")>>
    ELSE <<>>

NoProgress ==
    [rendered |-> FALSE, expenses |-> Fin(0), percent |-> PFin(0, 1), width |-> PFin(0, 1),
     class |-> "progress-bar", text |-> PFin(0, 1)]

\* what updateProgress writes to the page
updateProgress(s, txs, today, west) ==
    LET spent == thisMonthExpenses(txs, today, west)
        percent == percentOf(spent, s.budget)
    IN [rendered |-> TRUE,
        expenses |-> spent,
        percent |-> percent,
        width |-> boundedPercent(percent),
        class |-> IF PGe(percent, ExceededPercent) THEN "progress-bar progress-danger"
                  ELSE IF PGe(percent, WarningPercent) THEN "progress-bar progress-warning"
                  ELSE "progress-bar",
        text |-> MathRound(percent)]

----------------------------------------------------------------------------
(* The handlers. An argument of an action is what the user typed or chose. *)

Op(name, answer, amount, id) ==
    [op |-> name, answer |-> answer, amount |-> amount, id |-> id]

\* Date.now().toString(): the decimal string of the reading, one string per
\* reading, so the reading itself stands for it
NewId == clock

\* the clock moves on between two handlers, or does not
Tick ==
    /\ clock < MaxClock
    /\ clock' = clock + 1
    /\ lastOp' = Op("tick", "none", FieldEmpty, NoId)
    /\ toasts' = <<>>
    /\ UNCHANGED <<transactions, settings, nextSeq, now, tzWest, redirect, recent,
                   summary, progress, report, engine>>

\* AddTransactionController.handleSubmit
handleSubmit(type, amount, category, date, note) ==
    /\ lastOp' = Op("handleSubmit", "none", amount, NoId)
    /\ IF Falsy(amount) \/ JsLe(ToNumber(amount), Fin(0))
       THEN /\ toasts' = <<Toast("Please enter a valid amount", "error")>>
            /\ UNCHANGED <<transactions, nextSeq, redirect>>
       ELSE /\ nextSeq < MaxSubmits
            /\ transactions' = addTransaction(getTransactions,
                    [id |-> NewId, type |-> type, amount |-> amount, category |-> category,
                     date |-> date, note |-> note, seq |-> nextSeq + 1])
            /\ nextSeq' = nextSeq + 1
            /\ toasts' = <<Toast("Transaction added successfully!", "success")>>
            /\ redirect' = "dashboard.html"
    /\ UNCHANGED <<settings, clock, now, tzWest, recent, summary, progress, report, engine>>

\* DashboardController.init on the page as it is
DashboardInit(container, txs) ==
    /\ summary' = updateSummary(txs)
    /\ recent' = renderRecentTransactions(container, txs)

\* the dashboard page loads: its container holds the placeholder, then init runs
LoadDashboard ==
    /\ DashboardInit(<<>>, getTransactions)
    /\ lastOp' = Op("loadDashboard", "none", FieldEmpty, NoId)
    /\ toasts' = <<>>
    /\ UNCHANGED <<transactions, settings, clock, nextSeq, now, tzWest, redirect,
                   progress, report, engine>>

\* the timer of handleSubmit or clearAllData fires and the page is replaced
RedirectFires ==
    /\ redirect # "none"
    /\ redirect' = "none"
    /\ IF redirect = "dashboard.html"
       THEN DashboardInit(<<>>, getTransactions)
       ELSE UNCHANGED <<recent, summary>>
    /\ lastOp' = Op("redirect", "none", FieldEmpty, NoId)
    /\ toasts' = <<>>
    /\ UNCHANGED <<transactions, settings, clock, nextSeq, now, tzWest, progress,
                   report, engine>>

deleteItemNoConfirm(id, ok) ==
    /\ lastOp' = Op("deleteItem", IF ok THEN "yes" ELSE "no", FieldEmpty, id)
    /\ transactions' = deleteTransaction(getTransactions, id)
    /\ DashboardInit(recent, transactions')
    /\ toasts' = <<Toast("Transaction deleted", "success")>>
    /\ UNCHANGED <<settings, clock, nextSeq, now, tzWest, redirect, progress, report, engine>>

\* DashboardController.deleteItem: the trash button of a listed record; ok
\* is the answer to confirm()
deleteItem(id, ok) ==
    /\ lastOp' = Op("deleteItem", IF ok THEN "yes" ELSE "no", FieldEmpty, id)
    /\ IF ok
       THEN /\ transactions' = deleteTransaction(getTransactions, id)
            /\ DashboardInit(recent, transactions')
            /\ toasts' = <<Toast("Transaction deleted", "success")>>
       ELSE /\ toasts' = <<>>
            /\ UNCHANGED <<transactions, recent, summary>>
    /\ UNCHANGED <<settings, clock, nextSeq, now, tzWest, redirect, progress, report, engine>>

\* SettingsController.clearAllData: localStorage.clear() removes both keys
clearAllData(ok) ==
    /\ lastOp' = Op("clearAllData", IF ok THEN "yes" ELSE "no", FieldEmpty, NoId)
    /\ IF ok
       THEN /\ transactions' = <<>>
            /\ settings' = NoSettings
            /\ toasts' = <<Toast("All data cleared. Refreshing...", "success")>>
            /\ redirect' = "index.html"
       ELSE /\ toasts' = <<>>
            /\ UNCHANGED <<transactions, settings, redirect>>
    /\ UNCHANGED <<clock, nextSeq, now, tzWest, recent, summary, progress, report, engine>>

\* UIController.toggleTheme; data-theme was set from the stored settings
toggleTheme ==
    /\ LET current == getSettings
           newTheme == IF current.theme = "light" THEN "dark" ELSE "light"
       IN settings' = saveSettings([current EXCEPT !.theme = newTheme])
    /\ lastOp' = Op("toggleTheme", "none", FieldEmpty, NoId)
    /\ toasts' = <<>>
    /\ UNCHANGED <<transactions, clock, nextSeq, now, tzWest, redirect, recent, summary,
                   progress, report, engine>>

----------------------------------------------------------------------------
(* The ledger: submissions, deletions and clears on one localStorage. *)

NoReport ==
    [rendered |-> FALSE, period |-> "all", category |-> "all", list |-> <<>>,
     pie |-> <<>>, totals |-> calculateTotals(<<>>)]
NoEngine == [fn |-> "none", type |-> "expense", totals |-> calculateTotals(<<>>),
             byCategory |-> <<>>]

\* what the user can type into #amount
AmountInputs == {FieldEmpty, FieldText, FieldNum(-1), FieldNum(0), FieldNum(850)}

\* #transaction-type as the add page loads it
SubmitTypes == {"expense"}

\* the first option of #category for the chosen type
SubmitCategories(type) == {categories[type][1]}

SubmitDates == {[y |-> 2024, mo |-> 1, d |-> 5]}

Init ==
    /\ transactions = <<>>
    /\ settings = NoSettings
    /\ clock = 0
    /\ nextSeq = 0
    /\ now = [y |-> 2024, m |-> 0, d |-> 15]
    /\ tzWest = FALSE
    /\ toasts = <<>>
    /\ redirect = "none"
    /\ lastOp = NoOp
    /\ recent = <<>>
    /\ summary = NoSummary
    /\ progress = NoProgress
    /\ report = NoReport
    /\ engine = NoEngine

Next ==
    \/ Tick
    \/ \E type \in SubmitTypes, amount \in AmountInputs, date \in SubmitDates :
          \E category \in SubmitCategories(type) :
             handleSubmit(type, amount, category, date, "")
    \/ LoadDashboard
    \/ RedirectFires
    \/ \E i \in DOMAIN recent, ok \in BOOLEAN : deleteItem(recent[i].id, ok)
    \/ \E ok \in BOOLEAN : clearAllData(ok)
    \/ toggleTheme

Spec == Init /\ [][Next]_vars

----------------------------------------------------------------------------
(* ReportsController *)

Periods == {"all", "this-month", "last-month", "this-year"}

\* const last = new Date(); last.setMonth(now.getMonth() - 1)
lastMonth(today) == setMonth(today, today.m - 1)

\* the category filter applied to the stored list instead of the timed one
applyFiltersCategoryOnStored(txs, period, category, today, west) ==
    LET last == lastMonth(today)
        timed ==
            IF period = "this-month"
            THEN SelectSeq(txs, LAMBDA t : LET d == ParseLocal(t.date, west)
                                           IN d.m = today.m /\ d.y = today.y)
            ELSE IF period = "last-month"
            THEN SelectSeq(txs, LAMBDA t : LET d == ParseLocal(t.date, west)
                                           IN d.m = last.m /\ d.y = last.y)
            ELSE IF period = "this-year"
            THEN SelectSeq(txs, LAMBDA t : ParseLocal(t.date, west).y = today.y)
            ELSE txs
    IN IF category # "all" THEN SelectSeq(txs, LAMBDA t : t.category = category)
       ELSE timed

\* the list applyFilters hands to renderCharts and updateSummaryText
applyFilters(txs, period, category, today, west) ==
    LET last == lastMonth(today)
        timed ==
            IF period = "this-month"
            THEN SelectSeq(txs, LAMBDA t : LET d == ParseLocal(t.date, west)
                                           IN d.m = today.m /\ d.y = today.y)
            ELSE IF period = "last-month"
            THEN SelectSeq(txs, LAMBDA t : LET d == ParseLocal(t.date, west)
                                           IN d.m = last.m /\ d.y = last.y)
            ELSE IF period = "this-year"
            THEN SelectSeq(txs, LAMBDA t : ParseLocal(t.date, west).y = today.y)
            ELSE txs
    IN IF category # "all" THEN SelectSeq(timed, LAMBDA t : t.category = category)
       ELSE timed

\* the apply button, with the two selects as the user set them
ApplyFilters(period, category) ==
    /\ LET list == applyFilters(getTransactions, period, category, now, tzWest)
       IN report' = [rendered |-> TRUE, period |-> period, category |-> category,
                     list |-> list,
                     pie |-> getCategoryTotals(list, "expense"),
                     totals |-> calculateTotals(list)]
    /\ lastOp' = Op("applyFilters", "none", FieldEmpty, NoId)
    /\ toasts' = <<>>
    /\ UNCHANGED <<transactions, settings, clock, nextSeq, now, tzWest, redirect, recent,
                   summary, progress, engine>>

\* lists of at most n elements of S
ListsUpTo(S, n) == UNION {[1..k -> S] : k \in 0..n}

\* a stored list of the given records: the ids of distinct clock readings,
\* the newest record first
Stored(l) ==
    [i \in 1..Len(l) |->
        [id |-> Len(l) - i + 1, type |-> l[i].type, amount |-> l[i].amount,
         category |-> l[i].category, date |-> l[i].date, note |-> "",
         seq |-> Len(l) - i + 1]]

DateString(dt) == [y |-> dt.y, mo |-> dt.m + 1, d |-> dt.d]

\* calendar month before the one of today, as a Date on the given day
MonthBefore(today, day) ==
    IF today.m = 0 THEN [y |-> today.y - 1, m |-> 11, d |-> day]
    ELSE [y |-> today.y, m |-> today.m - 1, d |-> day]

\* the reference dates: the first, a middle and the last days of every
\* month of a leap year
ReportNows ==
    {[y |-> 2024, m |-> m, d |-> d] : m \in 0..11, d \in {1, 15, 28, 29, 30, 31}}
        \ {dt \in [y : {2024}, m : 0..11, d : 29..31] : dt.d > DaysInMonth(dt.y, dt.m)}

\* dates of the stored records: in the month before today's and in today's
ReportDates(today) ==
    {DateString(MonthBefore(today, 20)),
     DateString([today EXCEPT !.d = 1]),
     DateString([today EXCEPT !.d = 5])}

ReportRecords(today) ==
    {[type |-> "expense", amount |-> FieldNum(150), category |-> "Food", date |-> d]
        : d \in ReportDates(today)}
    \cup {[type |-> "income", amount |-> FieldNum(850), category |-> "Salary", date |-> d]
        : d \in ReportDates(today)}

InitPage(nows, west, lists) ==
    /\ now \in nows
    /\ tzWest \in west
    /\ transactions \in {Stored(l) : l \in lists}
    /\ settings = NoSettings
    /\ clock = Len(transactions)
    /\ nextSeq = Len(transactions)
    /\ toasts = <<>>
    /\ redirect = "none"
    /\ lastOp = NoOp
    /\ recent = <<>>
    /\ summary = NoSummary
    /\ progress = NoProgress
    /\ report = NoReport
    /\ engine = NoEngine

InitReports ==
    \E today \in ReportNows :
        /\ now = today
        /\ InitPage({today}, BOOLEAN, ListsUpTo(ReportRecords(today), MaxLen))

NextReports ==
    \E period \in Periods, category \in {"all", "Food"} :
        ApplyFilters(period, category)

\* the reports page over a stored list
SpecReports == InitReports /\ [][NextReports]_vars

----------------------------------------------------------------------------
(* The settings page over a stored list. *)

\* SettingsController.saveBudget
saveBudget(amount) ==
    /\ lastOp' = Op("saveBudget", "none", amount, NoId)
    /\ IF Falsy(amount) \/ JsLt(ToNumber(amount), Fin(0))
       THEN /\ toasts' = <<Toast("Please enter a valid budget", "error")>>
            /\ UNCHANGED <<settings, progress>>
       ELSE /\ settings' = saveSettings([getSettings EXCEPT !.budget = parseFloat(amount)])
            /\ progress' = updateProgress(settings', getTransactions, now, tzWest)
            /\ toasts' = checkBudgetAlerts(progress'.percent)
                            \o <<Toast("Budget saved successfully!", "success")>>
    /\ UNCHANGED <<transactions, clock, nextSeq, now, tzWest, redirect, recent, summary,
                   report, engine>>

\* SettingsController.init as the settings page loads
SettingsInit ==
    /\ progress' = updateProgress(getSettings, getTransactions, now, tzWest)
    /\ toasts' = checkBudgetAlerts(progress'.percent)
    /\ lastOp' = Op("settingsInit", "none", FieldEmpty, NoId)
    /\ UNCHANGED <<transactions, settings, clock, nextSeq, now, tzWest, redirect, recent,
                   summary, report, engine>>

\* what the user can type into #budget-amount
BudgetInputs == {FieldEmpty, FieldText, FieldNum(-1), FieldNum(0), FieldNum(1000)}

BudgetNows == {[y |-> 2024, m |-> 0, d |-> 15]}

BudgetRecords(today) ==
    {[type |-> t, amount |-> FieldNum(a), category |-> categories[t][1], date |-> d]
        : t \in Types, a \in {150, 800, 850}, d \in ReportDates(today)}

InitBudget ==
    \E today \in BudgetNows :
        /\ now = today
        /\ InitPage({today}, BOOLEAN, ListsUpTo(BudgetRecords(today), MaxLen))

NextBudget ==
    \/ SettingsInit
    \/ \E amount \in BudgetInputs : saveBudget(amount)
    \/ toggleTheme

SpecBudget == InitBudget /\ [][NextBudget]_vars

----------------------------------------------------------------------------
(* The FinancialEngine's functions applied to a list. *)

\* calculateTotals on the whole list
CalculateTotals ==
    /\ engine' = [engine EXCEPT !.fn = "calculateTotals",
                                 !.totals = calculateTotals(getTransactions)]
    /\ UNCHANGED <<transactions, settings, clock, nextSeq, now, tzWest, toasts, redirect,
                   lastOp, recent, summary, progress, report>>

\* getCategoryTotals for a type, and calculateTotals on the records of that type
CategoryTotals(type) ==
    /\ engine' = [fn |-> "getCategoryTotals", type |-> type,
                   byCategory |-> getCategoryTotals(getTransactions, type),
                   totals |-> calculateTotals(
                                 SelectSeq(getTransactions, LAMBDA t : t.type = type))]
    /\ UNCHANGED <<transactions, settings, clock, nextSeq, now, tzWest, toasts, redirect,
                   lastOp, recent, summary, progress, report>>

EngineRecords ==
    {[type |-> t, amount |-> a, category |-> c, date |-> d]
        : t \in Types, a \in {FieldNum(1), FieldNum(2), FieldText},
          c \in {"Food", "Salary", "Other"}, d \in SubmitDates}
    \ {r \in [type : Types, amount : {FieldNum(1), FieldNum(2), FieldText},
               category : {"Food", "Salary", "Other"}, date : SubmitDates]
           : r.category \notin Range(categories[r.type])}

InitEngine == InitPage(BudgetNows, {FALSE}, ListsUpTo(EngineRecords, MaxLen))

NextEngine ==
    \/ CalculateTotals
    \/ \E type \in Types : CategoryTotals(type)

SpecEngine == InitEngine /\ [][NextEngine]_vars

----------------------------------------------------------------------------
(* Claims about the ledger, checked under Spec. *)

RemoveAt(s, i) == SubSeq(s, 1, i - 1) \o SubSeq(s, i + 1, Len(s))

HasId(txs, id) == \E i \in DOMAIN txs : txs[i].id = id

\* C1: a confirmed delete of the id of a stored transaction leaves the
\* previous list with exactly one record removed, the one with that id, and
\* the others in the same relative order.
C1_DeleteRemovesExactlyOne ==
    [][(lastOp'.op = "deleteItem" /\ lastOp'.answer = "yes" /\ HasId(transactions, lastOp'.id))
         => \E i \in DOMAIN transactions :
               /\ transactions[i].id = lastOp'.id
               /\ transactions' = RemoveAt(transactions, i)]_vars

\* C2: in every reachable state the ids of the stored transactions are
\* pairwise distinct, also when two submissions are accepted at the same
\* clock reading.
C2_IdsDistinct ==
    \A i, j \in DOMAIN transactions : i # j => transactions[i].id # transactions[j].id

\* an amount that is empty, zero, negative or not a number
InvalidAmount(a) == a.kind \in {"empty", "text"} \/ (a.kind = "num" /\ a.n <= 0)

\* C7: a submission whose amount is empty, zero, negative or non-numeric is
\* rejected: an error toast, the stored list exactly as before, no redirect
\* scheduled; only a submission with a positive numeric amount adds a record.
C7_InvalidAmountRejected ==
    [][/\ (lastOp'.op = "handleSubmit" /\ InvalidAmount(lastOp'.amount))
           => /\ toasts' = <<Toast("Please enter a valid amount", "error")>>
              /\ transactions' = transactions
              /\ redirect' = redirect
       /\ Len(transactions') > Len(transactions)
           => lastOp'.op = "handleSubmit" /\ ~InvalidAmount(lastOp'.amount)]_vars

\* a step that removes stored data
Removes ==
    \/ Len(transactions') < Len(transactions)
    \/ \E t \in Range(transactions) : t \notin Range(transactions')
    \/ settings.present /\ ~settings'.present

\* C8: stored data is removed only in a step of deleteItem or clearAllData
\* whose confirmation prompt was answered yes; when the prompt is declined,
\* the stored list and the stored settings are unchanged and no toast is shown.
C8_RemovalOnlyWhenConfirmed ==
    [][/\ Removes => lastOp'.op \in {"deleteItem", "clearAllData"} /\ lastOp'.answer = "yes"
       /\ (lastOp'.op \in {"deleteItem", "clearAllData"} /\ lastOp'.answer = "no")
           => transactions' = transactions /\ settings' = settings /\ toasts' = <<>>]_vars

\* a declined prompt with data stored that the handler would have removed
C8_Witness ==
    /\ lastOp.op = "deleteItem" /\ lastOp.answer = "no"
    /\ HasId(transactions, lastOp.id)
    /\ settings.present

\* C9: the stored sequence is in reverse insertion order in every reachable
\* state, and an accepted add puts the new record at index 0 and leaves the
\* records stored before it present and in the same order.
C9_NewestFirst ==
    /\ [](\A i, j \in DOMAIN transactions :
            i < j => transactions[i].seq > transactions[j].seq)
    /\ [][(lastOp'.op = "handleSubmit" /\ nextSeq' = nextSeq + 1)
            => /\ Len(transactions') = Len(transactions) + 1
               /\ transactions'[1].seq = nextSeq'
               /\ Tail(transactions') = transactions]_vars

\* an add onto a list that an earlier delete shortened
C9_Witness ==
    /\ lastOp.op = "handleSubmit"
    /\ nextSeq = 3
    /\ Len(transactions) = 2

\* C12: after every confirmed deleteItem the dashboard list shows exactly
\* the first five stored transactions, in stored order, and so no deleted
\* one, also when the record deleted was the last one stored.
C12_RecentShowsStored ==
    (lastOp.op = "deleteItem" /\ lastOp.answer = "yes")
        => recent = FirstN(transactions, RecentCount)

----------------------------------------------------------------------------
(* Claims about the report filters, checked under SpecReports. *)

\* the date string names a day of the month before today's month
DatedLastMonth(date, today) ==
    IF today.m = 0 THEN date.mo = 12 /\ date.y = today.y - 1
    ELSE date.mo = today.m /\ date.y = today.y

\* C3: for every reference date, period=last-month keeps exactly the
\* transactions dated in the calendar month before now's month (the year
\* decremented in January), and none dated in now's own month. Stated here
\* for a browser whose zone is not behind UTC, where a date string reads
\* back as its own calendar day: the claim fails there already.
C3_LastMonthIsPreviousMonth ==
    (report.rendered /\ report.period = "last-month" /\ report.category = "all" /\ ~tzWest)
        => report.list = SelectSeq(transactions, LAMBDA t : DatedLastMonth(t.date, now))

\* C4: when now is a day of January of year Y, period=last-month keeps the
\* transactions dated in December of Y-1 and excludes those dated in
\* January of Y.
C4_JanuaryResolvesToDecember ==
    (report.rendered /\ report.period = "last-month" /\ report.category = "all" /\ now.m = 0)
        => report.list = SelectSeq(transactions,
                            LAMBDA t : t.date.mo = 12 /\ t.date.y = now.y - 1)

\* the period predicate on one record, as the selected period reads its date
InPeriod(t, period, today, west) ==
    LET d == ParseLocal(t.date, west)
        last == lastMonth(today)
    IN CASE period = "this-month" -> d.m = today.m /\ d.y = today.y
         [] period = "last-month" -> d.m = last.m /\ d.y = last.y
         [] period = "this-year" -> d.y = today.y
         [] OTHER -> TRUE

\* the category predicate on one record
InCategory(t, category) == category = "all" \/ t.category = category

\* C11: the list applyFilters passes on is exactly the stored records that
\* satisfy both the period predicate and the category predicate, in stored
\* order; it is the same with the category filter applied first; with
\* period=all and category=all it is the stored list; and applyFilters
\* leaves the stored list as it was.
C11_FiltersAreConjunction ==
    /\ [](report.rendered
            => /\ report.list =
                    SelectSeq(transactions,
                        LAMBDA t : /\ InPeriod(t, report.period, now, tzWest)
                                   /\ InCategory(t, report.category))
               /\ report.list =
                    SelectSeq(SelectSeq(transactions,
                                  LAMBDA t : InCategory(t, report.category)),
                        LAMBDA t : InPeriod(t, report.period, now, tzWest))
               /\ (report.period = "all" /\ report.category = "all")
                    => report.list = transactions)
    /\ [][lastOp'.op = "applyFilters" => transactions' = transactions]_vars

\* of two stored records, one passes a period filter and a category filter
\* and the other does not
C11_Witness ==
    /\ report.rendered
    /\ report.period = "last-month" /\ report.category = "Food"
    /\ Len(transactions) = 2 /\ Len(report.list) = 1
    /\ report.list[1] = transactions[2]

----------------------------------------------------------------------------
(* Claims about the budget tracker, checked under SpecBudget. *)

RECURSIVE SumInts(_)
SumInts(ns) == IF ns = <<>> THEN 0 ELSE Head(ns) + SumInts(Tail(ns))

\* sum of the amounts of the expenses dated in today's month and year
SpentThisMonth(txs, today) ==
    LET mine == SelectSeq(txs, LAMBDA t : /\ t.type = "expense"
                                          /\ t.date.mo = today.m + 1
                                          /\ t.date.y = today.y)
    IN SumInts([i \in DOMAIN mine |-> mine[i].amount.n])

ExceededToast == Toast("Budget Exceeded! Please review your spending.", "error")
WarningToast == Toast("Budget Warning: You have reached 80% of your limit.", "error")

\* updateProgress has just run
ProgressShown ==
    /\ progress.rendered
    /\ lastOp.op \in {"saveBudget", "settingsInit"}
    /\ Toast("Please enter a valid budget", "error") \notin Range(toasts)

\* C5: for a positive budget, percent is the sum of this month's expenses
\* over the budget times 100, and exactly one outcome follows: percent >= 100
\* the exceeded alert, 80 <= percent < 100 the warning alert, below 80 none.
C5_PercentAndClassification ==
    (ProgressShown /\ getSettings.budget.k = "fin" /\ getSettings.budget.v > 0)
        => LET spent == SpentThisMonth(transactions, now)
               budget == getSettings.budget.v
               alerts == Range(toasts) \cap {ExceededToast, WarningToast}
           IN /\ progress.percent = PFin(spent * 100, budget)
              /\ alerts = IF spent * 100 >= 100 * budget THEN {ExceededToast}
                          ELSE IF spent * 100 >= 80 * budget THEN {WarningToast}
                          ELSE {}

\* C6: in every reachable state, a stored budget of zero included, the
\* percent, the percent text and the bar width updateProgress renders are
\* finite numbers.
C6_ProgressAlwaysFinite ==
    progress.rendered
        => progress.percent.k = "fin" /\ progress.text.k = "fin" /\ progress.width.k = "fin"

----------------------------------------------------------------------------
(* Claims about the FinancialEngine, checked under SpecEngine. *)

AllNumeric(txs) == \A i \in DOMAIN txs : txs[i].amount.kind = "num"

RECURSIVE SumValues(_)
\* the sum of the values of a mapping
SumValues(f) ==
    IF DOMAIN f = {} THEN Fin(0)
    ELSE LET c == CHOOSE x \in DOMAIN f : TRUE
         IN JsAdd(f[c], SumValues([x \in DOMAIN f \ {c} |-> f[x]]))

\* C10: for a list with integer amounts and each type T, the category
\* totals of T sum to the T-total calculateTotals returns for the records
\* of type T, and calculateTotals returns balance = income - expense.
C10_CategoryTotalsSumToTotal ==
    AllNumeric(transactions)
        => /\ engine.fn = "getCategoryTotals"
                => JsEq(SumValues(engine.byCategory), engine.totals[engine.type])
           /\ engine.fn # "none"
                => JsEq(engine.totals.balance,
                        JsSub(engine.totals.income, engine.totals.expense))

\* two records of one type and one category have been added up
C10_Witness ==
    /\ engine.fn = "getCategoryTotals"
    /\ AllNumeric(transactions)
    /\ Len(transactions) = 2
    /\ transactions[1].type = engine.type /\ transactions[2].type = engine.type
    /\ transactions[1].category = transactions[2].category
    /\ engine.byCategory[transactions[1].category] = Fin(3)

====
